---- MODULE Spec2Model ----
(***************************************************************************)
(* A model of KGML_parser.py: the generator parse(handle), the strict      *)
(* accessor read(handle) and KGMLParser.parse(elem), over bounded KGML     *)
(* documents.  Attribute values that the parser hands to int() are         *)
(* sequences of one-character strings, so that int() is computed digit by  *)
(* digit; every other attribute value is an atomic string.                 *)
(***************************************************************************)
EXTENDS Integers, Sequences, FiniteSets, TLC

\* Most pathway elements below the root container of a generated document.
MaxPathways == 2

\* Most children of a pathway element in a generated document.
MaxKids == 2

\* Most children of the entry, reaction or relation element under study.
MaxSub == 3

\* Most requests the caller makes on an iterator that has already ended.
MaxRequestsAfterEnd == 2

----------------------------------------------------------------------------
(* Python's int(str) on a text value.                                      *)

Digits == <<"0", "1", "2", "3", "4", "5", "6", "7", "8", "9">>

IsDigit(c) == \E i \in 1..10 : Digits[i] = c

DigitVal(c) == (CHOOSE i \in 1..10 : Digits[i] = c) - 1

RECURSIVE StripLeft(_)
StripLeft(s) == IF s # <<>> /\ Head(s) = " " THEN StripLeft(Tail(s)) ELSE s

RECURSIVE StripRight(_)
StripRight(s) ==
    IF s # <<>> /\ s[Len(s)] = " " THEN StripRight(SubSeq(s, 1, Len(s) - 1)) ELSE s

\* str.strip(): int() ignores surrounding whitespace.
Strip(s) == StripRight(StripLeft(s))

\* The digits of a stripped text, with an optional sign removed.
Unsigned(s) == IF s # <<>> /\ Head(s) \in {"+", "-"} THEN Tail(s) ELSE s

\* int(s) succeeds: a non-empty run of decimal digits after the sign.
IsIntText(s) ==
    LET u == Unsigned(Strip(s))
    IN  u # <<>> /\ \A i \in 1..Len(u) : IsDigit(u[i])

RECURSIVE DigitsValue(_, _)
DigitsValue(u, acc) ==
    IF u = <<>> THEN acc ELSE DigitsValue(Tail(u), 10 * acc + DigitVal(Head(u)))

\* The value of int(s), for a text s on which int() succeeds.
IntOf(s) ==
    LET t == Strip(s)
        v == DigitsValue(Unsigned(t), 0)
    IN  IF t # <<>> /\ Head(t) = "-" THEN -v ELSE v

----------------------------------------------------------------------------
(* The element tree that iterparse builds: a store of elements by id, each *)
(* [tag, attrib, kids], kids being the ids of its children in order.       *)

NoAttrib == [x \in {} |-> x]

\* The outcome of a step that may raise: a value, or the exception raised.
Ok(v) == [ok |-> TRUE, val |-> v]

Raise(e) == [ok |-> FALSE, err |-> e]

\* IntAttrib recovering from a missing or non-integer attribute with 0.
IntAttrib_lenient(attrib, key) ==
    IF key \notin DOMAIN attrib \/ ~IsIntText(attrib[key]) THEN Ok(0)
    ELSE Ok(IntOf(attrib[key]))

\* int(attrib[key]): KeyError when the attribute is absent, ValueError when
\* int() rejects its text.
IntAttrib(attrib, key) ==
    IF key \notin DOMAIN attrib THEN Raise("KeyError")
    ELSE IF ~IsIntText(attrib[key]) THEN Raise("ValueError")
    ELSE Ok(IntOf(attrib[key]))

----------------------------------------------------------------------------
(* The Pathway document model of KGML_pathway: attribute bags with the     *)
(* add-operations the parser calls.                                        *)

Pathway == [attrs |-> NoAttrib, entries |-> NoAttrib, reactions |-> <<>>,
            relations |-> <<>>]

Entry == [attrs |-> NoAttrib, graphics |-> <<>>, components |-> <<>>]

Graphics == [attrs |-> NoAttrib]

Component == [attrs |-> NoAttrib]

Reaction == [attrs |-> NoAttrib, substrates |-> <<>>, products |-> <<>>]

Relation == [subtypes |-> <<>>]

\* Setting every XML attribute as a same-named field of the object.
SetAttrs(obj, attrib) == [obj EXCEPT !.attrs = attrib]

add_graphics(entry, g) == [entry EXCEPT !.graphics = Append(@, g)]

add_component(entry, c) == [entry EXCEPT !.components = Append(@, c)]

add_substrate(reaction, id) == [reaction EXCEPT !.substrates = Append(@, id)]

add_product(reaction, id) == [reaction EXCEPT !.products = Append(@, id)]

add_reaction(pathway, reaction) == [pathway EXCEPT !.reactions = Append(@, reaction)]

add_relation(pathway, relation) == [pathway EXCEPT !.relations = Append(@, relation)]

\* The entry collection is keyed by the entry's id coerced to an integer; an
\* entry whose id is absent or not an integer is a hard failure.
add_entry(pathway, entry) ==
    LET id == IntAttrib(entry.attrs, "id")
    IN  IF ~id.ok THEN Raise(id.err)
        ELSE Ok([pathway EXCEPT !.entries =
                    [k \in DOMAIN @ \cup {id.val} |->
                        IF k = id.val THEN entry ELSE @[k]]])

----------------------------------------------------------------------------
(* KGMLParser.parse and its helpers, over the element store ns.            *)

_parse_pathway(pathway, attrib) == SetAttrs(pathway, attrib)

_parse_graphics(ns, element, entry) ==
    add_graphics(entry, SetAttrs(Graphics, ns[element].attrib))

_parse_component(ns, element, entry) ==
    add_component(entry, SetAttrs(Component, ns[element].attrib))

RECURSIVE EntryChildren(_, _, _)
EntryChildren(ns, kids, new_entry) ==
    IF kids = <<>> THEN new_entry
    ELSE LET subelement == Head(kids)
             tag == ns[subelement].tag
         IN  EntryChildren(ns, Tail(kids),
                 IF tag = "graphics" THEN _parse_graphics(ns, subelement, new_entry)
                 ELSE IF tag = "component" THEN _parse_component(ns, subelement, new_entry)
                 ELSE new_entry)

_parse_entry(ns, element, pathway) ==
    add_entry(pathway,
              EntryChildren(ns, ns[element].kids, SetAttrs(Entry, ns[element].attrib)))

RECURSIVE ReactionChildren_copy_paste(_, _, _)
\* ReactionChildren with the product branch calling add_substrate.
ReactionChildren_copy_paste(ns, kids, new_reaction) ==
    IF kids = <<>> THEN Ok(new_reaction)
    ELSE LET subelement == ns[Head(kids)]
             id == IntAttrib(subelement.attrib, "id")
         IN  IF subelement.tag \in {"substrate", "product"}
             THEN IF ~id.ok THEN Raise(id.err)
                  ELSE ReactionChildren_copy_paste(ns, Tail(kids),
                                                   add_substrate(new_reaction, id.val))
             ELSE ReactionChildren_copy_paste(ns, Tail(kids), new_reaction)

RECURSIVE ReactionChildren(_, _, _)
ReactionChildren(ns, kids, new_reaction) ==
    IF kids = <<>> THEN Ok(new_reaction)
    ELSE LET subelement == ns[Head(kids)]
             id == IntAttrib(subelement.attrib, "id")
         IN  IF subelement.tag = "substrate"
             THEN IF ~id.ok THEN Raise(id.err)
                  ELSE ReactionChildren(ns, Tail(kids), add_substrate(new_reaction, id.val))
             ELSE IF subelement.tag = "product"
             THEN IF ~id.ok THEN Raise(id.err)
                  ELSE ReactionChildren(ns, Tail(kids), add_product(new_reaction, id.val))
             ELSE ReactionChildren(ns, Tail(kids), new_reaction)

_parse_reaction(ns, element, pathway) ==
    LET r == ReactionChildren(ns, ns[element].kids,
                              SetAttrs(Reaction, ns[element].attrib))
    IN  IF ~r.ok THEN r ELSE Ok(add_reaction(pathway, r.val))

\* IsCompoundName without 'hidden compound'.
IsCompoundName_compound_only(name) == name = "compound"

\* name in ('compound', 'hidden compound')
IsCompoundName(name) == name \in {"compound", "hidden compound"}

RECURSIVE RelationChildren(_, _, _)
RelationChildren(ns, kids, new_relation) ==
    IF kids = <<>> THEN Ok(new_relation)
    ELSE LET attrib == ns[Head(kids)].attrib
         IN  IF "name" \notin DOMAIN attrib \/ "value" \notin DOMAIN attrib
             THEN Raise("KeyError")
             ELSE IF IsCompoundName(attrib.name)
             THEN IF ~IsIntText(attrib.value) THEN Raise("ValueError")
                  ELSE RelationChildren(ns, Tail(kids),
                          [new_relation EXCEPT !.subtypes =
                              Append(@, <<attrib.name, [int |-> IntOf(attrib.value)]>>)])
             ELSE RelationChildren(ns, Tail(kids),
                          [new_relation EXCEPT !.subtypes =
                              Append(@, <<attrib.name, [text |-> attrib.value]>>)])

_parse_relation(ns, element, pathway) ==
    LET attrib == ns[element].attrib
        entry1 == IntAttrib(attrib, "entry1")
        entry2 == IntAttrib(attrib, "entry2")
    IN  IF ~entry1.ok THEN entry1
        ELSE IF ~entry2.ok THEN entry2
        ELSE IF "type" \notin DOMAIN attrib THEN Raise("KeyError")
        ELSE LET r == RelationChildren(ns, ns[element].kids,
                          [entry1 |-> entry1.val, entry2 |-> entry2.val,
                           type |-> attrib.type, subtypes |-> Relation.subtypes])
             IN  IF ~r.ok THEN r ELSE Ok(add_relation(pathway, r.val))

\* The loop over the pathway element's children: the Pathway built so far and
\* the warnings printed so far, until a child raises.
RECURSIVE PathwayChildren(_, _, _, _)
PathwayChildren(ns, kids, pathway, printed) ==
    IF kids = <<>> THEN [ok |-> TRUE, val |-> pathway, printed |-> printed]
    ELSE LET element == Head(kids)
             tag == ns[element].tag
         IN  IF tag \in {"entry", "reaction", "relation"}
             THEN LET r == CASE tag = "entry"    -> _parse_entry(ns, element, pathway)
                             [] tag = "reaction" -> _parse_reaction(ns, element, pathway)
                             [] tag = "relation" -> _parse_relation(ns, element, pathway)
                  IN  IF ~r.ok THEN [ok |-> FALSE, err |-> r.err, printed |-> printed]
                      ELSE PathwayChildren(ns, Tail(kids), r.val, printed)
             ELSE PathwayChildren(ns, Tail(kids), pathway, Append(printed, tag))

\* KGMLParser(elem).parse()
KGMLParser_parse(ns, elem) ==
    PathwayChildren(ns, ns[elem].kids, _parse_pathway(Pathway, ns[elem].attrib), <<>>)

----------------------------------------------------------------------------
(* Bounded sources.  A document is a tree of elements [tag, attrib, kids]; *)
(* its text is the sequence of start and end tokens iterparse reports.     *)

Elem(tag, attrib) == [tag |-> tag, attrib |-> attrib]

Node(head, kids) == [tag |-> head.tag, attrib |-> head.attrib, kids |-> kids]

Leaf(head) == Node(head, <<>>)

SeqsUpTo(S, n) == UNION { [1..k -> S] : k \in 0..n }

Leaves(heads) == [i \in DOMAIN heads |-> Leaf(heads[i])]

PathwayA == Elem("pathway", [name |-> "a"])

PathwayB == Elem("pathway", [name |-> "b"])

Entry7 == Elem("entry", [id |-> <<"7">>])

ReactionHead == Elem("reaction", [name |-> "rn"])

RelationHead ==
    Elem("relation", [entry1 |-> <<"1">>, entry2 |-> <<" ", "2">>, type |-> "ECrel"])

Foo == Elem("foo", NoAttrib)

ReactionKidHeads ==
    { Elem("substrate", [id |-> <<"5">>]), Elem("substrate", [id |-> <<" ", "6">>]),
      Elem("substrate", [id |-> <<"x">>]),
      Elem("product", [id |-> <<"5">>]), Elem("product", [id |-> <<"8">>]),
      Elem("product", NoAttrib), Foo }

RelationKidHeads ==
    { Elem("subtype", [name |-> "compound", value |-> <<"4", "2">>]),
      Elem("subtype", [name |-> "compound", value |-> <<"x">>]),
      Elem("subtype", [name |-> "hidden compound", value |-> <<"-", "7">>]),
      Elem("subtype", [name |-> "activation", value |-> <<"4", "2">>]),
      Elem("foo", [name |-> "activation", value |-> <<"x">>]),
      Foo }

EntryKidHeads ==
    { Elem("graphics", [x |-> "10", y |-> "20"]), Elem("component", [id |-> <<"9", "9">>]), Foo }

\* One entry, reaction or relation with every choice of up to MaxSub children.
FocusElements ==
    { Node(ReactionHead, Leaves(f)) : f \in SeqsUpTo(ReactionKidHeads, MaxSub) }
        \cup { Node(RelationHead, Leaves(f)) : f \in SeqsUpTo(RelationKidHeads, MaxSub) }
        \cup { Node(Entry7, Leaves(f)) : f \in SeqsUpTo(EntryKidHeads, MaxSub) }

GoodReaction ==
    Node(ReactionHead, <<Leaf(Elem("substrate", [id |-> <<"5">>])),
                         Leaf(Elem("product", [id |-> <<"8">>]))>>)

GoodRelation ==
    Node(RelationHead,
         <<Leaf(Elem("subtype", [name |-> "compound", value |-> <<"4", "2">>]))>>)

OtherReaction ==
    Node(Elem("reaction", [name |-> "rn2"]), <<Leaf(Elem("product", [id |-> <<"5">>]))>>)

NestedPathway == Node(Elem("pathway", [name |-> "n"]), <<Leaf(Entry7)>>)

\* Children of a pathway element, valid and invalid.
ChildSamples ==
    { Node(Entry7, <<Leaf(Elem("graphics", [x |-> "10", y |-> "20"]))>>),
      Leaf(Elem("entry", [id |-> <<"x">>])),
      Leaf(Elem("entry", [name |-> "e"])),
      GoodReaction,
      OtherReaction,
      GoodRelation,
      Leaf(Elem("relation", [entry1 |-> <<"x">>, entry2 |-> <<"2">>, type |-> "ECrel"])),
      Leaf(Elem("relation", [entry1 |-> <<"1">>, type |-> "ECrel"])),
      Leaf(Foo),
      NestedPathway }

\* Pathway elements, valid and invalid, for documents of several pathways.
PathwaySamples ==
    { Leaf(PathwayA),
      Node(PathwayB, <<Leaf(Entry7), GoodReaction>>),
      Node(PathwayB, <<Leaf(Elem("relation", [entry1 |-> <<"x">>, entry2 |-> <<"2">>,
                                              type |-> "ECrel"]))>>),
      Node(PathwayA, <<NestedPathway>>) }

\* Documents for the scan: a root container of pathway elements, or a
\* pathway element as the root.
ScanDocs ==
    { Node(Elem("kgml", NoAttrib), kids) :
          kids \in SeqsUpTo(PathwaySamples \cup {Leaf(Foo)}, MaxPathways) }
        \cup PathwaySamples

\* Documents for the conversion: one pathway element as the root.
ConvDocs ==
    { Node(PathwayA, <<f>>) : f \in FocusElements }
        \cup { Node(PathwayA, kids) : kids \in SeqsUpTo(ChildSamples, MaxKids) }

RECURSIVE Tokens(_)
\* The start and end tokens of an element, in document order.
Tokens(t) ==
    LET RECURSIVE Of(_)
        Of(ks) == IF ks = <<>> THEN <<>> ELSE Tokens(Head(ks)) \o Of(Tail(ks))
    IN  <<[event |-> "start", tag |-> t.tag, attrib |-> t.attrib]>>
            \o Of(t.kids) \o <<[event |-> "end", tag |-> t.tag]>>

\* A handle: the kind of Python object, its document (roots: none or one
\* root element), the tokens of its text, and the position of the first
\* token the XML parser rejects (0: the text is well-formed).
Source(kind, roots, bad) ==
    [kind |-> kind, roots |-> roots,
     tokens |-> IF roots = <<>> THEN <<>> ELSE Tokens(roots[1]), bad |-> bad]

Sources ==
    UNION { { Source(k, <<d>>, b) : k \in {"file", "str"},
                                     b \in 0..(Len(Tokens(d)) + 1) } : d \in ScanDocs }
        \cup { Source(k, <<>>, 1) : k \in {"file", "str"} }
        \cup { Source("file", <<d>>, 0) : d \in ConvDocs }
        \cup { Source(k, <<>>, 0) : k \in {"unicode", "int"} }

----------------------------------------------------------------------------
(* The exceptions that reach the caller.                                   *)

StopIteration == "StopIteration"

HandleError == "Exception: An XML-containing handle or an XML string must be provided"

ParseError == "ParseError"

NoPathways == "ValueError: No pathways found in handle"

MoreThanOne == "ValueError: More than one pathway found in handle"

----------------------------------------------------------------------------
(* State.                                                                  *)

VARIABLES
    handle,    \* the source given to parse and to read
    pc,        \* where the caller is: idle, iterating, dropped, read_first,
               \* read_second, read_done
    gen,       \* the generator of parse: [st, at, end]
    pos,       \* events iterparse has delivered to the generator's loop
    stack,     \* ids of the elements iterparse has open
    nodes,     \* the element tree iterparse has built, by element id
    elem,      \* the element of the event last delivered (0: none)
    yielded,   \* the Pathways the generator has yielded so far
    raised,    \* what the caller's last request on the generator raised
    printed,   \* the tags named by the warnings printed so far
    requests,  \* requests made on the generator after it ended
    iterated,  \* what the caller drew from parse before dropping the iterator
    first,     \* read's local `first`
    result     \* what read returned or raised

vars == <<handle, pc, gen, pos, stack, nodes, elem, yielded, raised, printed,
          requests, iterated, first, result>>

scan == <<pos, stack, nodes, elem>>

None == [none |-> TRUE]

\* A generator object whose body has not started.
NewGenerator == [st |-> "created", at |-> "check", end |-> "none"]

Init ==
    /\ handle \in Sources
    /\ pc = "idle"
    /\ gen = [st |-> "none", at |-> "check", end |-> "none"]
    /\ pos = 0
    /\ stack = <<>>
    /\ nodes = <<>>
    /\ elem = 0
    /\ yielded = <<>>
    /\ raised = "none"
    /\ printed = <<>>
    /\ requests = 0
    /\ iterated = None
    /\ first = None
    /\ result = None

\* The generator ends: by its loop running out (StopIteration) or by an
\* exception, which the caller's request raises.
Finish(e) ==
    /\ gen' = [gen EXCEPT !.st = "finished", !.end = e]
    /\ raised' = e

----------------------------------------------------------------------------
(* parse(handle): the call only creates the generator; its body runs on    *)
(* the requests.                                                           *)

\* iterator = parse(handle)
parse_call ==
    /\ pc = "idle"
    /\ pc' = "iterating"
    /\ gen' = NewGenerator
    /\ UNCHANGED <<handle, scan, yielded, raised, printed, requests, iterated,
                   first, result>>

\* next_call on a generator that a request can start again after it ended.
next_call_restarting ==
    /\ pc = "iterating"
    /\ gen.st \in {"created", "suspended", "finished"}
    /\ IF gen.st = "finished" /\ gen.at = "check"
       THEN /\ requests < MaxRequestsAfterEnd
            /\ requests' = requests + 1
            /\ raised' = StopIteration
            /\ gen' = gen
       ELSE /\ gen' = [gen EXCEPT !.st = "running",
                                  !.at = IF gen.st = "finished" THEN "loop" ELSE @]
            /\ raised' = "none"
            /\ requests' = requests
    /\ UNCHANGED <<handle, pc, scan, yielded, printed, iterated, first, result>>

\* iterator.next() by the caller of parse: resumes the generator, or raises
\* StopIteration when it has ended.
next_call ==
    /\ pc = "iterating"
    /\ gen.st \in {"created", "suspended", "finished"}
    /\ IF gen.st = "finished"
       THEN /\ requests < MaxRequestsAfterEnd
            /\ requests' = requests + 1
            /\ raised' = StopIteration
            /\ gen' = gen
       ELSE /\ gen' = [gen EXCEPT !.st = "running"]
            /\ raised' = "none"
            /\ requests' = requests
    /\ UNCHANGED <<handle, pc, scan, yielded, printed, iterated, first, result>>

\* The caller stops requesting and lets the iterator go.
drop_iterator ==
    /\ pc = "iterating"
    /\ gen.st # "running"
    /\ pc' = "dropped"
    /\ iterated' = [out |-> yielded, end |-> gen.end]
    /\ UNCHANGED <<handle, gen, scan, yielded, raised, printed, requests, first,
                   result>>

\* Lines 94-100: the handle check, run when the body starts.
check_handle ==
    /\ gen.st = "running" /\ gen.at = "check"
    /\ IF handle.kind = "file" \/ handle.kind = "str"
       THEN gen' = [gen EXCEPT !.at = "loop"] /\ raised' = raised
       ELSE Finish(HandleError)
    /\ UNCHANGED <<handle, pc, scan, yielded, printed, requests, iterated, first,
                   result>>

\* iterparse reports a start tag: a new element, appended to its parent.
StartElement(tk) ==
    LET id == Len(nodes) + 1
        new == [tag |-> tk.tag, attrib |-> tk.attrib, kids |-> <<>>]
        attached == IF stack = <<>> THEN nodes
                    ELSE [nodes EXCEPT ![stack[Len(stack)]].kids = Append(@, id)]
    IN  /\ nodes' = Append(attached, new)
        /\ stack' = Append(stack, id)
        /\ elem' = id
        /\ gen' = gen

\* iterparse reports an end tag: the element is complete.  Line 104 sends a
\* pathway element to the conversion.
EndElement ==
    LET id == stack[Len(stack)]
    IN  /\ stack' = SubSeq(stack, 1, Len(stack) - 1)
        /\ elem' = id
        /\ nodes' = nodes
        /\ gen' = [gen EXCEPT !.at = IF nodes[id].tag = "pathway" THEN "convert"
                                      ELSE "loop"]

\* Lines 102-104: the loop takes the next event of iterparse.  The XML
\* parser works a block of text ahead of the events: of a malformed text,
\* the events before the damage are delivered or not, as the blocks fall.
next_event ==
    /\ gen.st = "running" /\ gen.at = "loop"
    /\ IF handle.bad = 0 /\ pos = Len(handle.tokens)
       THEN Finish(StopIteration) /\ UNCHANGED scan
       ELSE \E fail \in IF handle.bad = 0 THEN {FALSE}
                        ELSE IF pos + 1 = handle.bad THEN {TRUE}
                        ELSE {TRUE, FALSE} :
                IF fail
                THEN Finish(ParseError) /\ UNCHANGED scan
                ELSE /\ pos' = pos + 1
                     /\ raised' = raised
                     /\ IF handle.tokens[pos + 1].event = "start"
                        THEN StartElement(handle.tokens[pos + 1])
                        ELSE EndElement
    /\ UNCHANGED <<handle, pc, yielded, printed, requests, iterated, first, result>>

\* Line 105: yield KGMLParser(elem).parse().  A Pathway is handed to the
\* caller and the generator waits; an exception of the conversion ends it.
convert ==
    /\ gen.st = "running" /\ gen.at = "convert"
    /\ LET r == KGMLParser_parse(nodes, elem)
       IN  /\ printed' = printed \o r.printed
           /\ IF r.ok
              THEN /\ yielded' = Append(yielded, r.val)
                   /\ gen' = [gen EXCEPT !.st = "suspended", !.at = "clear"]
                   /\ raised' = raised
              ELSE /\ Finish(r.err)
                   /\ yielded' = yielded
    /\ UNCHANGED <<handle, pc, scan, requests, iterated, first, result>>

\* elem.clear(): the element keeps its tag and loses attributes and children.
Cleared(ns, e) == [ns EXCEPT ![e] = [tag |-> @.tag, attrib |-> NoAttrib, kids |-> <<>>]]

\* clear leaving the element as it is.
clear_without_release ==
    /\ gen.st = "running" /\ gen.at = "clear"
    /\ gen' = [gen EXCEPT !.at = "loop"]
    /\ UNCHANGED <<handle, pc, scan, yielded, raised, printed, requests, iterated,
                   first, result>>

\* Line 106: elem.clear(), the first thing a resumed generator does.
clear ==
    /\ gen.st = "running" /\ gen.at = "clear"
    /\ nodes' = Cleared(nodes, elem)
    /\ gen' = [gen EXCEPT !.at = "loop"]
    /\ UNCHANGED <<handle, pc, pos, stack, elem, yielded, raised, printed, requests,
                   iterated, first, result>>

----------------------------------------------------------------------------
(* read(handle), on a fresh stream of the same text.                       *)

\* Lines 69-71: iterator = parse(handle); first = iterator.next()
read_call ==
    /\ pc \in {"idle", "dropped"}
    /\ pc' = "read_first"
    /\ gen' = [NewGenerator EXCEPT !.st = "running"]
    /\ pos' = 0 /\ stack' = <<>> /\ nodes' = <<>> /\ elem' = 0
    /\ yielded' = <<>>
    /\ raised' = "none"
    /\ requests' = 0
    /\ UNCHANGED <<handle, printed, iterated, first, result>>

\* read_first without the `first is None` test.
read_first_unchecked ==
    /\ pc = "read_first"
    /\ gen.st # "running"
    /\ IF gen.st = "suspended"
       THEN /\ first' = yielded[Len(yielded)]
            /\ gen' = [gen EXCEPT !.st = "running"]
            /\ pc' = "read_second"
            /\ result' = result
       ELSE /\ result' = IF raised = StopIteration THEN Ok(None) ELSE Raise(raised)
            /\ pc' = "read_done"
            /\ UNCHANGED <<first, gen>>
    /\ UNCHANGED <<handle, scan, yielded, raised, printed, requests, iterated>>

\* Lines 71-77: the first request has ended; no Pathway is an error, else
\* the second request is made.
read_first ==
    /\ pc = "read_first"
    /\ gen.st # "running"
    /\ IF gen.st = "suspended"
       THEN /\ first' = yielded[Len(yielded)]
            /\ gen' = [gen EXCEPT !.st = "running"]
            /\ pc' = "read_second"
            /\ result' = result
       ELSE /\ result' = Raise(IF raised = StopIteration THEN NoPathways ELSE raised)
            /\ pc' = "read_done"
            /\ UNCHANGED <<first, gen>>
    /\ UNCHANGED <<handle, scan, yielded, raised, printed, requests, iterated>>

\* read_second with the test on `second` inverted.
read_second_inverted ==
    /\ pc = "read_second"
    /\ gen.st # "running"
    /\ result' = IF gen.st = "suspended" THEN Ok(first)
                 ELSE IF raised = StopIteration THEN Raise(MoreThanOne)
                 ELSE Raise(raised)
    /\ pc' = "read_done"
    /\ UNCHANGED <<handle, gen, scan, yielded, raised, printed, requests, iterated,
                   first>>

\* Lines 77-82: the second request has ended; a second Pathway is an error,
\* else the first is returned.
read_second ==
    /\ pc = "read_second"
    /\ gen.st # "running"
    /\ result' = IF gen.st = "suspended" THEN Raise(MoreThanOne)
                 ELSE IF raised = StopIteration THEN Ok(first)
                 ELSE Raise(raised)
    /\ pc' = "read_done"
    /\ UNCHANGED <<handle, gen, scan, yielded, raised, printed, requests, iterated,
                   first>>

Next ==
    \/ parse_call
    \/ next_call
    \/ drop_iterator
    \/ check_handle
    \/ next_event
    \/ convert
    \/ clear
    \/ read_call
    \/ read_first
    \/ read_second

Spec == Init /\ [][Next]_vars

----------------------------------------------------------------------------
(* What a document holds, read off its tree, for stating the properties.   *)

RECURSIVE Flatten(_)
Flatten(ss) == IF ss = <<>> THEN <<>> ELSE Head(ss) \o Flatten(Tail(ss))

RECURSIVE PathwayElements(_)
\* The pathway-tagged elements of a tree at any depth, in the order in
\* which they close.
PathwayElements(t) ==
    Flatten([i \in DOMAIN t.kids |-> PathwayElements(t.kids[i])])
        \o (IF t.tag = "pathway" THEN <<t>> ELSE <<>>)

RECURSIVE TopLevelPathways(_)
\* The pathway-tagged elements that lie inside no other pathway element.
TopLevelPathways(t) ==
    IF t.tag = "pathway" THEN <<t>>
    ELSE Flatten([i \in DOMAIN t.kids |-> TopLevelPathways(t.kids[i])])

HasInt(attrib, key) == key \in DOMAIN attrib /\ IsIntText(attrib[key])

Kids(t) == { t.kids[i] : i \in DOMAIN t.kids }

\* A reaction element all of whose substrate and product children carry an
\* integer id.
ValidReaction(r) ==
    \A k \in Kids(r) : k.tag \in {"substrate", "product"} => HasInt(k.attrib, "id")

\* A relation element with integer entry1 and entry2, a type, and a name and
\* a value on every child, the value an integer under a compound name.
ValidRelation(r) ==
    /\ HasInt(r.attrib, "entry1") /\ HasInt(r.attrib, "entry2")
    /\ "type" \in DOMAIN r.attrib
    /\ \A k \in Kids(r) :
           /\ {"name", "value"} \subseteq DOMAIN k.attrib
           /\ k.attrib.name \in {"compound", "hidden compound"} => IsIntText(k.attrib.value)

\* A pathway element whose conversion meets no missing or invalid attribute.
ValidPathway(p) ==
    \A c \in Kids(p) :
        /\ c.tag = "entry" => HasInt(c.attrib, "id")
        /\ c.tag = "reaction" => ValidReaction(c)
        /\ c.tag = "relation" => ValidRelation(c)

\* The source is text that the XML parser accepts to its end.
WellFormed == handle.kind \in {"file", "str"} /\ handle.bad = 0

\* The pathway elements of a well-formed source, in closing order.
SourcePathways == PathwayElements(handle.roots[1])

RECURSIVE Subtree(_, _)
\* The tree below element e of the element store.
Subtree(ns, e) ==
    [tag |-> ns[e].tag, attrib |-> ns[e].attrib,
     kids |-> [i \in DOMAIN ns[e].kids |-> Subtree(ns, ns[e].kids[i])]]

----------------------------------------------------------------------------
(* C1 *)

\* C1 as stated: read on a source with no pathway element raises the
\* "No pathways found" error, and on a source with two or more pathway
\* elements raises the "More than one pathway found" error (stated for
\* well-formed text, the case most favourable to the claim).
C1_AsStated ==
    (pc = "read_done" /\ WellFormed) =>
        /\ Len(SourcePathways) = 0 => result = Raise(NoPathways)
        /\ Len(SourcePathways) >= 2 => result = Raise(MoreThanOne)

\* C1 amended: read on a well-formed source with no pathway element raises
\* "No pathways found"; on a well-formed source with two or more pathway
\* elements, of which the first two to close have valid required attributes,
\* it raises "More than one pathway found"; if one of those two has a missing
\* or invalid attribute, the first such failure is raised instead.  A source
\* without exactly one pathway element never makes read return a Pathway.
C1_ExactlyOne ==
    (pc = "read_done" /\ WellFormed) =>
        LET ps == SourcePathways
        IN  /\ Len(ps) = 0 => result = Raise(NoPathways)
            /\ (Len(ps) >= 2 /\ ValidPathway(ps[1]) /\ ValidPathway(ps[2]))
                   => result = Raise(MoreThanOne)
            /\ (Len(ps) >= 2 /\ ~(ValidPathway(ps[1]) /\ ValidPathway(ps[2])))
                   => ~result.ok /\ result.err \in {"KeyError", "ValueError"}
            /\ Len(ps) # 1 => ~result.ok

\* read has raised each of the two cardinality errors' cases: here the
\* multiple-documents error, on a source of two or more pathway elements.
C1_Witness ==
    /\ pc = "read_done" /\ WellFormed
    /\ Len(SourcePathways) >= 2
    /\ result = Raise(MoreThanOne)

----------------------------------------------------------------------------
(* C2 *)

\* C2 as stated: when the iteration over a well-formed source has run to its
\* end, the number of Pathways yielded is the number of top-level pathway
\* elements; a pathway element nested in another adds none.
C2_OnePerTopLevel ==
    (pc = "iterating" /\ WellFormed /\ gen.end = StopIteration) =>
        Len(yielded) = Len(TopLevelPathways(handle.roots[1]))

----------------------------------------------------------------------------
(* C3 *)

\* C3 as stated: for a handle that is neither a stream nor a string, the
\* call of parse itself raises the unsupported-input error: once parse has
\* been called the error has been raised, with no request made.
C3_RaisedByTheCall ==
    (pc = "iterating" /\ handle.kind \notin {"file", "str"}) => raised = HandleError

----------------------------------------------------------------------------
(* C4 *)

IsSubtype(e) == e.tag = "subtype"

IsReaction(e) == e.tag = "reaction"

IsRelation(e) == e.tag = "relation"

\* Validity as C4 has it, with unrecognized children skipped: only the
\* subtype children of a relation are read.
ValidSkippingUnknown(p) ==
    \A c \in Kids(p) :
        /\ c.tag = "entry" => HasInt(c.attrib, "id")
        /\ c.tag = "reaction" => ValidReaction(c)
        /\ c.tag = "relation" =>
               ValidRelation([c EXCEPT !.kids = SelectSeq(c.kids, IsSubtype)])

\* The unrecognized elements in a pathway element: its children other than
\* entry, reaction and relation, and the unrecognized children of those.
UnknownCount(p) ==
    LET Unknown(c, known) == Len(SelectSeq(c.kids, LAMBDA k : k.tag \notin known))
        Below(c) == CASE c.tag = "entry"    -> Unknown(c, {"graphics", "component"})
                      [] c.tag = "reaction" -> Unknown(c, {"substrate", "product"})
                      [] c.tag = "relation" -> Unknown(c, {"subtype"})
                      [] OTHER              -> 0
        RECURSIVE Sum(_)
        Sum(ks) == IF ks = <<>> THEN 0 ELSE Below(Head(ks)) + Sum(Tail(ks))
    IN  Unknown(p, {"entry", "reaction", "relation"}) + Sum(p.kids)

\* C4 as stated: an unrecognized tag at any depth of a pathway element is
\* never fatal (a conversion fails only on an invalid recognized element),
\* a warning is printed for each, and no entity is built from one (a
\* Relation holds one subtype pair per subtype-tagged child).
C4_UnknownTagsSkipped ==
    LET t == Subtree(nodes, elem)
    IN  /\ (gen.st = "finished" /\ gen.at = "convert") => ~ValidSkippingUnknown(t)
        /\ (gen.st = "suspended") =>
               LET p == yielded[Len(yielded)]
                   rels == SelectSeq(t.kids, IsRelation)
               IN  /\ Len(printed) >= UnknownCount(t)
                   /\ \A i \in DOMAIN rels :
                          Len(p.relations[i].subtypes)
                              = Len(SelectSeq(rels[i].kids, IsSubtype))

----------------------------------------------------------------------------
(* C5 *)

\* The caller drew every Pathway of the source from parse before read ran.
Drained == iterated # None /\ iterated.end = StopIteration

\* C5 as stated: on a well-formed source with exactly one pathway element,
\* read raises no error and returns a Pathway equal to the only one parse
\* yields.
C5_AsStated ==
    (pc = "read_done" /\ WellFormed /\ Len(SourcePathways) = 1) =>
        /\ result.ok
        /\ Drained => iterated.out = <<result.val>>

\* C5 amended: on a well-formed source with exactly one pathway element,
\* whose required attributes are all present and integer where an integer is
\* read, read raises no error and returns a Pathway equal to the only one
\* parse yields.
C5_ReadEqualsParse ==
    (/\ pc = "read_done" /\ WellFormed
     /\ Len(SourcePathways) = 1 /\ ValidPathway(SourcePathways[1])) =>
        /\ result.ok
        /\ Drained => iterated.out = <<result.val>>

\* read has returned the Pathway, with an entry and a reaction in it, that
\* the drained iteration yielded.
C5_Witness ==
    /\ pc = "read_done" /\ WellFormed /\ Drained
    /\ Len(SourcePathways) = 1
    /\ result.ok /\ iterated.out = <<result.val>>
    /\ result.val.entries # NoAttrib /\ result.val.reactions # <<>>

----------------------------------------------------------------------------
(* C6 *)

\* The pathway elements closed by the first k tokens.
RECURSIVE ClosedPathways(_)
ClosedPathways(k) ==
    IF k = 0 THEN 0
    ELSE ClosedPathways(k - 1)
            + (IF handle.tokens[k].event = "end" /\ handle.tokens[k].tag = "pathway"
               THEN 1 ELSE 0)

IsCleared(e) == nodes[e].attrib = NoAttrib /\ nodes[e].kids = <<>>

\* Where the generator stands against the events consumed: every pathway
\* element closed so far has been handed over before the loop takes another
\* event; the element just handed over is intact while the caller holds the
\* new Pathway, and cleared by the time the loop goes on.
C6_Order ==
    /\ gen.at = "check" => pos = 0 /\ yielded = <<>>
    /\ gen.at = "loop" =>
           /\ Len(yielded) = ClosedPathways(pos)
           /\ \A e \in DOMAIN nodes :
                  (nodes[e].tag = "pathway" /\ \A i \in DOMAIN stack : stack[i] # e)
                      => IsCleared(e)
    /\ gen.at = "convert" => Len(yielded) = ClosedPathways(pos) - 1
    /\ gen.at = "clear" =>
           /\ Len(yielded) = ClosedPathways(pos)
           /\ handle.tokens[pos] = [event |-> "end", tag |-> "pathway"]
           /\ ~IsCleared(elem)
           /\ yielded[Len(yielded)].attrs = nodes[elem].attrib

\* A step of the same generator keeps every Pathway already yielded.
C6_Kept ==
    (pc' = "read_first" => pc = "read_first") =>
        /\ Len(yielded') >= Len(yielded)
        /\ SubSeq(yielded', 1, Len(yielded)) = yielded

\* C6: each Pathway is built and handed to the caller before another event
\* is consumed; its element is cleared after the yield and before the next
\* event; clearing changes no Pathway already yielded.
C6_LazyRelease == []C6_Order /\ [][C6_Kept]_vars

\* The scan goes on after a Pathway with an entry was yielded and its
\* element cleared.
C6_Witness ==
    /\ gen.st = "running" /\ gen.at = "loop" /\ pos < Len(handle.tokens)
    /\ Len(yielded) = 1 /\ yielded[1].entries # NoAttrib
    /\ elem # 0 /\ nodes[elem].tag = "pathway" /\ IsCleared(elem)

----------------------------------------------------------------------------
(* C7 *)

\* A pathway element with one of the attributes C7 lists missing or not an
\* integer.
InvalidListed(p) ==
    \E c \in Kids(p) :
        \/ c.tag = "entry" /\ ~HasInt(c.attrib, "id")
        \/ c.tag = "reaction" /\ ~ValidReaction(c)
        \/ c.tag = "relation"
               /\ (~HasInt(c.attrib, "entry1") \/ ~HasInt(c.attrib, "entry2"))

C7_Step ==
    /\ (gen.st = "running" /\ gen.at = "convert" /\ InvalidListed(Subtree(nodes, elem)))
           => /\ gen'.st = "finished"
              /\ raised' \in {"KeyError", "ValueError"}
              /\ yielded' = yielded
    /\ (pc \in {"read_first", "read_second"} /\ gen.st = "finished" /\ gen.at = "convert")
           => /\ pc' = "read_done"
              /\ result' = Raise(raised)

\* C7: the conversion of a pathway element with a missing or non-integer id
\* (entry, substrate, product) or entry1/entry2 (relation) raises to the
\* caller of the request, or of read, and yields no Pathway for the element.
C7_HardFailure == [][C7_Step]_vars

\* The request on a pathway element with such an attribute has raised, after
\* an earlier Pathway was yielded.
C7_Witness ==
    /\ pc = "iterating" /\ gen.st = "finished" /\ gen.at = "convert"
    /\ InvalidListed(Subtree(nodes, elem))
    /\ raised = "ValueError"
    /\ Len(yielded) = 1

----------------------------------------------------------------------------
(* C8 *)

C8_Step ==
    /\ (gen.st = "running" /\ gen'.st = "finished" /\ gen'.end # StopIteration)
           => raised' = gen'.end /\ yielded' = yielded
    /\ (gen.st = "finished" /\ pc' = pc)
           => /\ gen' = gen
              /\ yielded' = yielded
              /\ requests' # requests => raised' = StopIteration

----------------------------------------------------------------------------
(* C9 *)

\* The integer ids of the children of r tagged `tag`, in document order.
IdsOf(r, tag) ==
    LET ks == SelectSeq(r.kids, LAMBDA k : k.tag = tag)
    IN  [i \in DOMAIN ks |-> IntOf(ks[i].attrib.id)]

\* C9: the Pathway just yielded holds one Reaction per reaction element, in
\* document order, each with the ids of its substrate children as substrates
\* and of its product children as products, each in document order.
C9_ReactionOrder ==
    gen.st = "suspended" =>
        LET p == yielded[Len(yielded)]
            rs == SelectSeq(Subtree(nodes, elem).kids, IsReaction)
        IN  /\ Len(p.reactions) = Len(rs)
            /\ \A i \in DOMAIN rs :
                   /\ p.reactions[i].attrs = rs[i].attrib
                   /\ p.reactions[i].substrates = IdsOf(rs[i], "substrate")
                   /\ p.reactions[i].products = IdsOf(rs[i], "product")

\* A reaction with children product 5, substrate 6, product 8 was converted.
C9_Witness ==
    /\ gen.st = "suspended"
    /\ LET rs == SelectSeq(Subtree(nodes, elem).kids, IsReaction)
       IN  /\ Len(rs) = 1
           /\ [i \in DOMAIN rs[1].kids |-> rs[1].kids[i].tag]
                  = <<"product", "substrate", "product">>
    /\ yielded[Len(yielded)].reactions[1].substrates = <<6>>
    /\ yielded[Len(yielded)].reactions[1].products = <<5, 8>>

----------------------------------------------------------------------------
(* C10 *)

\* C10: the Pathway just yielded holds one Relation per relation element,
\* with integer entry1 and entry2, the type as text, and one (name, value)
\* pair per child in document order, the value an integer exactly under the
\* names "compound" and "hidden compound" and the original text otherwise.
C10_RelationSubtypes ==
    gen.st = "suspended" =>
        LET p == yielded[Len(yielded)]
            rs == SelectSeq(Subtree(nodes, elem).kids, IsRelation)
        IN  /\ Len(p.relations) = Len(rs)
            /\ \A i \in DOMAIN rs :
                   LET r == p.relations[i]
                   IN  /\ r.entry1 \in Int /\ r.entry1 = IntOf(rs[i].attrib.entry1)
                       /\ r.entry2 \in Int /\ r.entry2 = IntOf(rs[i].attrib.entry2)
                       /\ r.type = rs[i].attrib.type
                       /\ Len(r.subtypes) = Len(rs[i].kids)
                       /\ \A j \in DOMAIN rs[i].kids :
                              LET a == rs[i].kids[j].attrib
                              IN  r.subtypes[j] =
                                      <<a.name,
                                        IF a.name \in {"compound", "hidden compound"}
                                        THEN [int |-> IntOf(a.value)]
                                        ELSE [text |-> a.value]>>

\* A relation with a hidden-compound subtype of value "-7" and an activation
\* subtype of value "42" was converted.
C10_Witness ==
    /\ gen.st = "suspended"
    /\ yielded[Len(yielded)].relations # <<>>
    /\ LET r == yielded[Len(yielded)].relations[1]
       IN  /\ r.entry1 = 1 /\ r.entry2 = 2 /\ r.type = "ECrel"
           /\ r.subtypes = << <<"hidden compound", [int |-> -7]>>,
                              <<"activation", [text |-> <<"4", "2">>]>> >>

====
